---- MODULE Spec2Model ----
(***************************************************************************)
(* Model of app.py of Simple_doc_segment: the line numberer                *)
(* (add_line_numbers_to_str), the upload handler with its call to the      *)
(* segmentation collaborator (segment_doc), the block flattening and       *)
(* sorting, the resolver scan loop and the escaping of rendered lines.     *)
(*                                                                         *)
(* A Python str is modelled as a sequence of one-character strings.        *)
(***************************************************************************)
EXTENDS Integers, Sequences, FiniteSets, TLC

VARIABLES pc, content, numbered_doc, original_lines, sections, calls, errors,
          blocks, current_line, html_output, raised, displayed,
          sections2, blocks2, current_line2, html_output2,
          line_text, branch, safe_line

vars == <<pc, content, numbered_doc, original_lines, sections, calls, errors,
          blocks, current_line, html_output, raised, displayed,
          sections2, blocks2, current_line2, html_output2,
          line_text, branch, safe_line>>

(* ------------------------------ bounds --------------------------------- *)

\* longest uploaded document, in lines
MaxN == 2
\* the ends of the line pairs returned by the collaborator go down to
\* -LowCoord
LowCoord == 2
\* most render-units appended to html_output by one scan
MaxSteps == 6
\* longest text handed to the line numberer on its own
MaxTextLen == 10
\* longest line handed to the escaping on its own
MaxLineLen == 4

(* --------------------------- generic helpers --------------------------- *)

Min(a, b) == IF a <= b THEN a ELSE b

RECURSIVE Flatten(_)
\* concatenation of a sequence of sequences
Flatten(ss) == IF ss = <<>> THEN <<>> ELSE Head(ss) \o Flatten(Tail(ss))

RECURSIVE SeqsUpTo(_, _)
\* all sequences over S of length at most n
SeqsUpTo(S, n) ==
    IF n = 0 THEN {<<>>}
    ELSE LET shorter == SeqsUpTo(S, n - 1)
         IN  shorter \cup {Append(s, x) : s \in {t \in shorter : Len(t) = n - 1}, x \in S}

(* ------------------------- Python str primitives ----------------------- *)

\* str.replace(old, new) for a one-character old
Replace(s, old, new) ==
    Flatten([i \in 1..Len(s) |-> IF s[i] = old THEN new ELSE <<s[i]>>])

Whitespace == {" ", "\t", "\n", "\r"}

\* str.strip(): the text without leading and trailing whitespace
Strip(s) ==
    LET keep == {i \in 1..Len(s) : s[i] \notin Whitespace}
    IN  IF keep = {} THEN <<>>
        ELSE SubSeq(s, CHOOSE i \in keep : \A j \in keep : i <= j,
                       CHOOSE i \in keep : \A j \in keep : i >= j)

\* the line boundaries str.splitlines() recognises, among the modelled
\* characters
LineBreaks == {"\n", "\r"}

RECURSIVE SplitLinesFrom(_, _)
\* str.splitlines() of text[i..]: a line ends at a line boundary, "\r\n"
\* counts as one boundary, and a final boundary opens no further line
SplitLinesFrom(text, i) ==
    IF i > Len(text) THEN <<>>
    ELSE LET brk == {j \in i..Len(text) : text[j] \in LineBreaks}
             eol == IF brk = {} THEN Len(text) + 1
                    ELSE CHOOSE j \in brk : \A k \in brk : j <= k
             nxt == IF eol > Len(text) THEN eol
                    ELSE IF text[eol] = "\r" /\ eol + 1 <= Len(text) /\ text[eol + 1] = "\n"
                         THEN eol + 2
                         ELSE eol + 1
         IN  <<SubSeq(text, i, eol - 1)>> \o SplitLinesFrom(text, nxt)

splitlines(text) == SplitLinesFrom(text, 1)

RECURSIVE JoinWith(_, _)
\* sep.join(parts)
JoinWith(sep, parts) ==
    IF parts = <<>> THEN <<>>
    ELSE IF Len(parts) = 1 THEN parts[1]
    ELSE parts[1] \o sep \o JoinWith(sep, Tail(parts))

DigitChar == <<"0", "1", "2", "3", "4", "5", "6", "7", "8", "9">>

RECURSIVE IntToStr(_)
\* the decimal rendering of a natural number by an f-string
IntToStr(n) ==
    IF n < 10 THEN <<DigitChar[n + 1]>>
    ELSE IntToStr(n \div 10) \o <<DigitChar[(n % 10) + 1]>>

(* ----------------------------- LineNumberer ---------------------------- *)

\* enumerate(lines, 1): the number given to the i-th line
FirstCount == 1
\* a slip: enumerate(lines), which counts from 0
enumerate_count_from_zero(i) == i - 1
enumerate_count(i) == FirstCount + (i - 1)

\* f"<<{count}>> {line}"
numbered_line(count, line) ==
    <<"<", "<">> \o IntToStr(count) \o <<">", ">", " ">> \o line

add_line_numbers_to_str(text) ==
    LET lines == splitlines(text)
        numbered_lines == [i \in 1..Len(lines) |->
                               numbered_line(enumerate_count(i), lines[i])]
    IN  <<JoinWith(<<"\n">>, numbered_lines), lines>>

(* ------------------------- Renderer: escaping -------------------------- *)

\* a slip: "&" replaced last, which escapes the "&" of "&lt;" and "&gt;" again
escape_amp_last(text) ==
    Replace(Replace(Replace(text, "<", <<"&", "l", "t", ";">>),
                    ">", <<"&", "g", "t", ";">>),
            "&", <<"&", "a", "m", "p", ";">>)

\* line_text.replace("&", "&amp;").replace("<", "&lt;").replace(">", "&gt;")
escape(text) ==
    Replace(Replace(Replace(text, "&", <<"&", "a", "m", "p", ";">>),
                    "<", <<"&", "l", "t", ";">>),
            ">", <<"&", "g", "t", ";">>)

\* safe_line of the labeled branch
safe_line_labeled(text) == escape(text)

\* safe_line of the unlabeled branch
safe_line_unlabeled(text) == escape(text)

\* {safe_line if safe_line.strip() else " "}
placeholder(safe) == IF Strip(safe) # <<>> THEN safe ELSE <<" ">>

(* --------------------------- BlockResolver ----------------------------- *)

\* blocks.append({"start": lp.start, "end": lp.end, "name": sec.name}) for
\* every line pair of every section, in input order
flatten_blocks(secs) ==
    Flatten([i \in 1..Len(secs) |->
                [j \in 1..Len(secs[i].line_pairs) |->
                    [start |-> secs[i].line_pairs[j].start,
                     end   |-> secs[i].line_pairs[j].end,
                     name  |-> secs[i].name]]])

\* a slip: key=lambda x: x["start"], as the comment of line 184 words it
key_le_start_only(a, b) == a.start <= b.start

\* key=lambda x: (x["start"], x["end"]), compared as Python tuples
key_le(a, b) == a.start < b.start \/ (a.start = b.start /\ a.end <= b.end)

\* one insertion of a stable sort: b goes behind every element whose key is
\* not greater than its own
insert_block(sorted, b) ==
    LET before == {i \in 1..Len(sorted) : key_le(sorted[i], b)}
        k == Cardinality(before)
    IN  SubSeq(sorted, 1, k) \o <<b>> \o SubSeq(sorted, k + 1, Len(sorted))

RECURSIVE sort_from(_, _)
sort_from(sorted, rest) ==
    IF rest = <<>> THEN sorted
    ELSE sort_from(insert_block(sorted, Head(rest)), Tail(rest))

\* blocks.sort(key=...): list.sort is stable
sort_blocks(bs) == sort_from(<<>>, bs)

\* [b for b in blocks if b["start"] == current_line]
matching_blocks(bs, cur) == SelectSeq(bs, LAMBDA b : b.start = cur)

\* a slip: end_line = block["end"], without the clamp
end_line_unclamped(block, n) == block.end

\* end_line = min(block["end"], total_lines)
end_line_of(block, n) == Min(block.end, n)

\* original_lines[i] for a Python index i: 0 when it raises IndexError,
\* otherwise the 1-based position of the element read (a negative index
\* counts from the end of the list)
list_index(n, i) ==
    IF 0 <= i /\ i < n THEN i + 1
    ELSE IF i < 0 /\ 0 - n <= i THEN n + i + 1
    ELSE 0

\* the values l of range(current_line, end_line + 1) whose read of
\* original_lines[l - 1] raises IndexError
bad_reads(n, from, to) == {l \in from..to : list_index(n, l - 1) = 0}

\* one rendered physical line: the number shown, the position read from
\* original_lines and the text put into the markup
rendered_line(lines, l, safe) ==
    [num |-> l, line |-> list_index(Len(lines), l - 1), text |-> placeholder(safe)]

\* the labeled div appended at lines 195-207
labeled_unit(lines, cur, block) ==
    LET end_line == end_line_of(block, Len(lines))
    IN  [kind |-> "Labeled", start |-> cur, end |-> end_line, name |-> block.name,
         lines |-> [k \in 1..(IF end_line >= cur THEN end_line - cur + 1 ELSE 0) |->
                       rendered_line(lines, cur + k - 1,
                           safe_line_labeled(lines[list_index(Len(lines), cur + k - 2)]))]]

\* the unlabeled div appended at lines 210-216
unlabeled_unit(lines, cur) ==
    [kind |-> "Unlabeled", start |-> cur, end |-> cur, name |-> "",
     lines |-> <<rendered_line(lines, cur,
                     safe_line_unlabeled(lines[list_index(Len(lines), cur - 1)]))>>]

\* the index whose read raises in one pass of the loop body, as a set
\* (empty when the pass raises nothing)
raising_reads(lines, bs, cur) ==
    LET m == matching_blocks(bs, cur)
    IN  IF m # <<>>
        THEN bad_reads(Len(lines), cur, end_line_of(m[1], Len(lines)))
        ELSE bad_reads(Len(lines), cur, cur)

\* current_line after one pass of the loop body
next_line(lines, bs, cur) ==
    LET m == matching_blocks(bs, cur)
    IN  IF m # <<>> THEN end_line_of(m[1], Len(lines)) + 1 ELSE cur + 1

\* the unit one pass of the loop body appends to html_output
next_unit(lines, bs, cur) ==
    LET m == matching_blocks(bs, cur)
    IN  IF m # <<>> THEN labeled_unit(lines, cur, m[1]) ELSE unlabeled_unit(lines, cur)

(* ------------------------------- inputs -------------------------------- *)

\* the i-th line of an uploaded document
SampleLine(i) ==
    CASE i % 4 = 1 -> <<"a", "<", "b">>
      [] i % 4 = 2 -> <<" ">>
      [] i % 4 = 3 -> <<"&", "l", "t", ";">>
      [] OTHER     -> <<>>

\* the uploaded documents: n lines, each closed by a newline
Doc(n) == Flatten([i \in 1..n |-> SampleLine(i) \o <<"\n">>])
Docs == {Doc(n) : n \in 0..MaxN}

Names == {"X", "Y"}
\* the responses are bounded by the names: at most as many sections, and as
\* many line pairs altogether, as there are names
MaxSegs == Cardinality(Names)
MaxBlocks == Cardinality(Names)
\* a line pair starts at 0 .. MaxN + 1 and ends at -LowCoord .. MaxN + 1: the
\* schema (lines 9-11) takes any int, also end < start and values outside
\* the document
StartCoords == 0..(MaxN + 1)
EndCoords == (0 - LowCoord)..(MaxN + 1)
LinePairs == [start : StartCoords, end : EndCoords]

\* SegmentSchema values with exactly k line pairs
Segments(k) == [name : Names, line_pairs : {s \in SeqsUpTo(LinePairs, k) : Len(s) = k}]

RECURSIVE SectionLists(_, _)
\* lists of exactly n sections holding at most budget line pairs together
SectionLists(n, budget) ==
    IF n = 0 THEN {<<>>}
    ELSE UNION {{<<seg>> \o rest : seg \in Segments(k),
                                   rest \in SectionLists(n - 1, budget - k)}
                : k \in 0..budget}

\* the parsed SegmentResponseSchema.sections a call can return
Responses == UNION {SectionLists(n, MaxBlocks) : n \in 0..MaxSegs}

\* what makes the call raise
Causes == {"network", "auth", "malformed"}

(* --------------------------- upload handler ---------------------------- *)

total_lines == Len(original_lines)

otherVars == <<sections2, blocks2, current_line2, html_output2, line_text, branch, safe_line>>

Init ==
    /\ pc = "idle"
    /\ content = <<>>
    /\ numbered_doc = <<>>
    /\ original_lines = <<>>
    /\ sections = <<>>
    /\ calls = 0
    /\ errors = <<>>
    /\ blocks = <<>>
    /\ current_line = 1
    /\ html_output = <<>>
    /\ raised = {}
    /\ displayed = "nothing"
    /\ sections2 = <<>>
    /\ blocks2 = <<>>
    /\ current_line2 = 1
    /\ html_output2 = <<>>
    /\ line_text = <<>>
    /\ branch = "none"
    /\ safe_line = <<>>

\* lines 111-115: a file is uploaded (the script runs anew for it), decoded
\* and numbered
Upload ==
    /\ pc \in {"idle", "done", "crashed"}
    /\ \E doc \in Docs :
          /\ content' = doc
          /\ numbered_doc' = add_line_numbers_to_str(doc)[1]
          /\ original_lines' = add_line_numbers_to_str(doc)[2]
    /\ sections' = <<>>
    /\ calls' = 0
    /\ errors' = <<>>
    /\ blocks' = <<>>
    /\ current_line' = 1
    /\ html_output' = <<>>
    /\ raised' = {}
    /\ displayed' = "nothing"
    /\ pc' = "segment"
    /\ UNCHANGED otherVars

\* lines 116-118 with segment_doc (86-94) returning a parsed response
SegmentOk ==
    /\ pc = "segment"
    /\ calls' = calls + 1
    /\ \E resp \in Responses : sections' = resp
    /\ pc' = "branch"
    /\ UNCHANGED <<content, numbered_doc, original_lines, errors, blocks,
                   current_line, html_output, raised, displayed, otherVars>>

\* lines 116-121 with segment_doc (86-94) raising: st.error, sections = []
SegmentFail ==
    /\ pc = "segment"
    /\ calls' = calls + 1
    /\ \E cause \in Causes : errors' = Append(errors, cause)
    /\ sections' = <<>>
    /\ pc' = "branch"
    /\ UNCHANGED <<content, numbered_doc, original_lines, blocks,
                   current_line, html_output, raised, displayed, otherVars>>

\* a slip: the scan is entered whatever the call gave
has_sections_always(secs) == TRUE

\* line 123: if sections
has_sections(secs) == secs # <<>>

\* lines 123-188: the blocks are flattened and sorted, the cursor is set
StartScan ==
    /\ pc = "branch"
    /\ has_sections(sections)
    /\ blocks' = sort_blocks(flatten_blocks(sections))
    /\ current_line' = 1
    /\ html_output' = <<>>
    /\ pc' = "scan"
    /\ UNCHANGED <<content, numbered_doc, original_lines, sections, calls,
                   errors, raised, displayed, otherVars>>

\* lines 225-226: st.warning, nothing is rendered
Warn ==
    /\ pc = "branch"
    /\ ~has_sections(sections)
    /\ displayed' = "warning"
    /\ pc' = "done"
    /\ UNCHANGED <<content, numbered_doc, original_lines, sections, calls,
                   errors, blocks, current_line, html_output, raised, otherVars>>

\* lines 190-208: the cursor starts a block
ScanLabeled ==
    /\ pc = "scan"
    /\ current_line <= total_lines
    /\ matching_blocks(blocks, current_line) # <<>>
    /\ raising_reads(original_lines, blocks, current_line) = {}
    /\ Len(html_output) < MaxSteps
    /\ html_output' = Append(html_output, next_unit(original_lines, blocks, current_line))
    /\ current_line' = next_line(original_lines, blocks, current_line)
    /\ UNCHANGED <<pc, content, numbered_doc, original_lines, sections, calls,
                   errors, blocks, raised, displayed, otherVars>>

\* lines 190-192, 209-217: no block starts at the cursor
ScanUnlabeled ==
    /\ pc = "scan"
    /\ current_line <= total_lines
    /\ matching_blocks(blocks, current_line) = <<>>
    /\ raising_reads(original_lines, blocks, current_line) = {}
    /\ Len(html_output) < MaxSteps
    /\ html_output' = Append(html_output, next_unit(original_lines, blocks, current_line))
    /\ current_line' = next_line(original_lines, blocks, current_line)
    /\ UNCHANGED <<pc, content, numbered_doc, original_lines, sections, calls,
                   errors, blocks, raised, displayed, otherVars>>

\* lines 199, 210: the read of original_lines raises IndexError, which
\* nothing catches; the script stops with nothing rendered
ScanRaise ==
    /\ pc = "scan"
    /\ current_line <= total_lines
    /\ raising_reads(original_lines, blocks, current_line) # {}
    /\ raised' = {(CHOOSE l \in raising_reads(original_lines, blocks, current_line) :
                      \A k \in raising_reads(original_lines, blocks, current_line) : l <= k) - 1}
    /\ pc' = "crashed"
    /\ UNCHANGED <<content, numbered_doc, original_lines, sections, calls,
                   errors, blocks, current_line, html_output, displayed, otherVars>>

\* lines 190, 219-224: the loop ends and html_output is displayed
Finish ==
    /\ pc = "scan"
    /\ current_line > total_lines
    /\ displayed' = "html"
    /\ pc' = "done"
    /\ UNCHANGED <<content, numbered_doc, original_lines, sections, calls,
                   errors, blocks, current_line, html_output, raised, otherVars>>

Next ==
    \/ Upload
    \/ SegmentOk
    \/ SegmentFail
    \/ StartScan
    \/ Warn
    \/ ScanLabeled
    \/ ScanUnlabeled
    \/ ScanRaise
    \/ Finish

Spec == Init /\ [][Next]_vars

TypeOK ==
    /\ pc \in {"idle", "segment", "branch", "scan", "done", "crashed"}
    /\ calls \in 0..1
    /\ displayed \in {"nothing", "warning", "html"}

(* --------------- the line numberer on arbitrary texts ------------------ *)

TextChars == {"a", "\n", "\r"}
Texts == SeqsUpTo(TextChars, MaxTextLen)

mainIdle == <<sections, calls, errors, blocks, current_line, html_output,
              raised, displayed>>

InitNum ==
    /\ pc = "text"
    /\ content \in Texts
    /\ numbered_doc = <<>>
    /\ original_lines = <<>>
    /\ sections = <<>>
    /\ calls = 0
    /\ errors = <<>>
    /\ blocks = <<>>
    /\ current_line = 1
    /\ html_output = <<>>
    /\ raised = {}
    /\ displayed = "nothing"
    /\ sections2 = <<>>
    /\ blocks2 = <<>>
    /\ current_line2 = 1
    /\ html_output2 = <<>>
    /\ line_text = <<>>
    /\ branch = "none"
    /\ safe_line = <<>>

\* line 115: numbered_doc, original_lines = add_line_numbers_to_str(content)
NumberLines ==
    /\ pc = "text"
    /\ numbered_doc' = add_line_numbers_to_str(content)[1]
    /\ original_lines' = add_line_numbers_to_str(content)[2]
    /\ pc' = "numbered"
    /\ UNCHANGED <<content, mainIdle, otherVars>>

NextNum == NumberLines

SpecNum == InitNum /\ [][NextNum]_vars

(* ------------------ the escaping on arbitrary lines -------------------- *)

LineChars == {"&", "<", ">", "l", "t", ";", "a"}
LineTexts == SeqsUpTo(LineChars, MaxLineLen)

InitEsc ==
    /\ pc = "line"
    /\ line_text \in LineTexts
    /\ branch = "none"
    /\ safe_line = <<>>
    /\ content = <<>>
    /\ numbered_doc = <<>>
    /\ original_lines = <<>>
    /\ sections = <<>>
    /\ calls = 0
    /\ errors = <<>>
    /\ blocks = <<>>
    /\ current_line = 1
    /\ html_output = <<>>
    /\ raised = {}
    /\ displayed = "nothing"
    /\ sections2 = <<>>
    /\ blocks2 = <<>>
    /\ current_line2 = 1
    /\ html_output2 = <<>>

\* lines 199-204: safe_line of a line inside a labeled block
EscapeLabeled ==
    /\ pc = "line"
    /\ branch' = "labeled"
    /\ safe_line' = safe_line_labeled(line_text)
    /\ pc' = "escaped"
    /\ UNCHANGED <<line_text, content, numbered_doc, original_lines, mainIdle,
                   sections2, blocks2, current_line2, html_output2>>

\* lines 210-215: safe_line of an unlabeled line
EscapeUnlabeled ==
    /\ pc = "line"
    /\ branch' = "unlabeled"
    /\ safe_line' = safe_line_unlabeled(line_text)
    /\ pc' = "escaped"
    /\ UNCHANGED <<line_text, content, numbered_doc, original_lines, mainIdle,
                   sections2, blocks2, current_line2, html_output2>>

NextEsc == EscapeLabeled \/ EscapeUnlabeled

SpecEsc == InitEsc /\ [][NextEsc]_vars

\* does s hold the characters of w from position i on
StartsWith(s, i, w) ==
    /\ i + Len(w) - 1 <= Len(s)
    /\ SubSeq(s, i, i + Len(w) - 1) = w

RECURSIVE UnescapeFrom(_, _)
\* a markup-entity decoder for "&amp;", "&lt;" and "&gt;": one pass from left
\* to right, a decoded character is never looked at again
UnescapeFrom(s, i) ==
    IF i > Len(s) THEN <<>>
    ELSE IF StartsWith(s, i, <<"&", "a", "m", "p", ";">>)
         THEN <<"&">> \o UnescapeFrom(s, i + 5)
    ELSE IF StartsWith(s, i, <<"&", "l", "t", ";">>)
         THEN <<"<">> \o UnescapeFrom(s, i + 4)
    ELSE IF StartsWith(s, i, <<"&", "g", "t", ";">>)
         THEN <<">">> \o UnescapeFrom(s, i + 4)
    ELSE <<s[i]>> \o UnescapeFrom(s, i + 1)

unescape(s) == UnescapeFrom(s, 1)

(* ------------- two scans of one response in two input orders ---------- *)

\* the rearrangements of a sequence
Rearranged(seq) ==
    {[i \in 1..Len(seq) |-> seq[p[i]]] :
        p \in {q \in [1..Len(seq) -> 1..Len(seq)] :
                  \A i, j \in 1..Len(seq) : q[i] = q[j] => i = j}}

\* the same sections with the line pairs of each rearranged
PairsRearranged(secs) ==
    {t \in [1..Len(secs) -> UNION {[name : {secs[i].name},
                                    line_pairs : Rearranged(secs[i].line_pairs)]
                                   : i \in 1..Len(secs)}] :
        \A i \in 1..Len(secs) :
            /\ t[i].name = secs[i].name
            /\ t[i].line_pairs \in Rearranged(secs[i].line_pairs)}

\* every input order of the same set of sections and line pairs
InputOrders(secs) == UNION {Rearranged(t) : t \in PairsRearranged(secs)}

InitPerm ==
    /\ pc = "orders"
    /\ content \in Docs
    /\ numbered_doc = add_line_numbers_to_str(content)[1]
    /\ original_lines = add_line_numbers_to_str(content)[2]
    /\ sections \in Responses \ {<<>>}
    /\ sections2 \in InputOrders(sections)
    /\ calls = 1
    /\ errors = <<>>
    /\ blocks = <<>>
    /\ current_line = 1
    /\ html_output = <<>>
    /\ raised = {}
    /\ displayed = "nothing"
    /\ blocks2 = <<>>
    /\ current_line2 = 1
    /\ html_output2 = <<>>
    /\ line_text = <<>>
    /\ branch = "none"
    /\ safe_line = <<>>

\* lines 179-188, for each of the two input orders
StartBoth ==
    /\ pc = "orders"
    /\ blocks' = sort_blocks(flatten_blocks(sections))
    /\ blocks2' = sort_blocks(flatten_blocks(sections2))
    /\ current_line' = 1
    /\ current_line2' = 1
    /\ html_output' = <<>>
    /\ html_output2' = <<>>
    /\ pc' = "scans"
    /\ UNCHANGED <<content, numbered_doc, original_lines, sections, sections2,
                   calls, errors, raised, displayed, line_text, branch, safe_line>>

\* can the scan over bs at cur make one more pass of the loop body
can_pass(lines, bs, cur) ==
    /\ cur <= Len(lines)
    /\ raising_reads(lines, bs, cur) = {}

\* lines 190-217: each of the two scans makes one pass of the loop body,
\* unless it has ended
StepBoth ==
    /\ pc = "scans"
    /\ can_pass(original_lines, blocks, current_line)
          \/ can_pass(original_lines, blocks2, current_line2)
    /\ Len(html_output) < MaxSteps
    /\ Len(html_output2) < MaxSteps
    /\ IF can_pass(original_lines, blocks, current_line)
       THEN /\ html_output' = Append(html_output,
                                     next_unit(original_lines, blocks, current_line))
            /\ current_line' = next_line(original_lines, blocks, current_line)
       ELSE UNCHANGED <<html_output, current_line>>
    /\ IF can_pass(original_lines, blocks2, current_line2)
       THEN /\ html_output2' = Append(html_output2,
                                      next_unit(original_lines, blocks2, current_line2))
            /\ current_line2' = next_line(original_lines, blocks2, current_line2)
       ELSE UNCHANGED <<html_output2, current_line2>>
    /\ UNCHANGED <<pc, content, numbered_doc, original_lines, sections, sections2,
                   calls, errors, blocks, blocks2, raised, displayed,
                   line_text, branch, safe_line>>

NextPerm == StartBoth \/ StepBoth

SpecPerm == InitPerm /\ [][NextPerm]_vars

(* ------------------------------ properties ----------------------------- *)

OneToN(n) == [i \in 1..n |-> i]

\* the line numbers shown by the units of out, in emission order
shown_numbers(out) ==
    Flatten([i \in 1..Len(out) |-> [k \in 1..Len(out[i].lines) |-> out[i].lines[k].num]])

\* the positions of original_lines read for the units of out, in emission order
read_positions(out) ==
    Flatten([i \in 1..Len(out) |-> [k \in 1..Len(out[i].lines) |-> out[i].lines[k].line]])

LabeledUnits(out) == {i \in 1..Len(out) : out[i].kind = "Labeled"}

\* C1: when the scan has ended, the line indices rendered, concatenated in
\* emission order, are exactly 1, 2, ..., N.
C1_Covering ==
    (pc = "done" /\ displayed = "html") =>
        /\ shown_numbers(html_output) = OneToN(total_lines)
        /\ read_positions(html_output) = OneToN(total_lines)

\* C2: two scans of the same sections in two input orders have emitted the
\* identical sequence of render-units (same start, end and name for each).
C2_SameUnits ==
    pc = "scans" => html_output = html_output2

\* a unit without its name
span_of(u) == [kind |-> u.kind, start |-> u.start, end |-> u.end, lines |-> u.lines]
spans(out) == [i \in 1..Len(out) |-> span_of(out[i])]

\* two blocks of different names have the same (start, end)
NameTie(bs) ==
    \E i, j \in 1..Len(bs) :
        bs[i].start = bs[j].start /\ bs[i].end = bs[j].end /\ bs[i].name # bs[j].name

\* C2, amended: two scans of the same sections in two input orders have
\* emitted units with the same kind, start, end and lines; the names are the
\* same too unless two blocks of different names have the same (start, end).
C2_SameSpans ==
    pc = "scans" =>
        /\ spans(html_output) = spans(html_output2)
        /\ ~NameTie(blocks) => html_output = html_output2

\* C2 witness: the two input orders differ, two blocks share their start but
\* not their end, and both scans have emitted a labeled unit at that start
C2_Witness ==
    /\ pc = "scans"
    /\ sections2 # sections
    /\ flatten_blocks(sections) # flatten_blocks(sections2)
    /\ \E i, j \in 1..Len(blocks) :
          /\ blocks[i].start = blocks[j].start
          /\ blocks[i].end < blocks[j].end
          /\ \E k \in LabeledUnits(html_output) :
                /\ html_output[k].start = blocks[i].start
                /\ k \in LabeledUnits(html_output2)
                /\ html_output2[k].name = blocks[i].name

\* C3: a degenerate block (start > end after clamping, or end < 1) never
\* produces a labeled unit and the scan raises no error.
C3_DegenerateSkipped ==
    /\ \A i \in LabeledUnits(html_output) :
          html_output[i].start <= html_output[i].end /\ html_output[i].end >= 1
    /\ pc # "crashed"

\* C4: every labeled unit has end = min(block.end, N) for the block selected
\* at its start, no unit shows or reads a line beyond N, no read of the line
\* array is beyond N, and no unit starts beyond N.
C4_Clamping ==
    /\ \A i \in 1..Len(html_output) :
          /\ html_output[i].start <= total_lines
          /\ html_output[i].end <= total_lines
          /\ \A k \in 1..Len(html_output[i].lines) :
                html_output[i].lines[k].num <= total_lines
    /\ \A i \in LabeledUnits(html_output) :
          LET m == matching_blocks(blocks, html_output[i].start)
          IN  /\ m # <<>>
              /\ html_output[i].name = m[1].name
              /\ html_output[i].end = Min(m[1].end, total_lines)
    /\ \A i \in raised : i < total_lines

\* C4 witness: a block that ends beyond N was rendered, up to line N
C4_Witness ==
    \E i \in LabeledUnits(html_output) :
        /\ matching_blocks(blocks, html_output[i].start)[1].end > total_lines
        /\ html_output[i].end = total_lines
        /\ Len(html_output[i].lines) = 2
        /\ pc = "done"

\* C5: when the pipeline has ended for a document that has lines, it has
\* rendered lines 1..N, labeled or all unlabeled, also when the call failed
\* or returned no section.
C5_FullOrUnlabeled ==
    (pc \in {"done", "crashed"} /\ total_lines > 0) =>
        /\ displayed = "html"
        /\ shown_numbers(html_output) = OneToN(total_lines)

\* C6: once the call to the collaborator has raised, it was made exactly
\* once, one error with its cause is reported, the segment set is empty, the
\* scan is not started and nothing is rendered, and the numbered text and the
\* line array are those computed from the upload before the call.
C6_FailureHandling ==
    errors # <<>> =>
        /\ calls = 1
        /\ Len(errors) = 1
        /\ errors[1] \in Causes
        /\ sections = <<>>
        /\ pc \in {"branch", "done"}
        /\ blocks = <<>>
        /\ html_output = <<>>
        /\ displayed # "html"
        /\ numbered_doc = add_line_numbers_to_str(content)[1]
        /\ original_lines = add_line_numbers_to_str(content)[2]

\* C6 witness: the call raised for a document with lines and the run ended
C6_Witness ==
    /\ errors = <<"malformed">>
    /\ pc = "done"
    /\ Len(original_lines) = MaxN
    /\ displayed = "warning"

\* C7: decoding the entities of an escaped line gives back the line, in the
\* labeled and in the unlabeled branch alike.
C7_EscapeRoundTrip ==
    pc = "escaped" => unescape(safe_line) = line_text

\* C7 witness: a line that already holds the entity "&lt;" was escaped
C7_Witness ==
    /\ pc = "escaped"
    /\ branch = "unlabeled"
    /\ line_text = <<"&", "l", "t", ";">>
    /\ safe_line = <<"&", "a", "m", "p", ";", "l", "t", ";">>

RECURSIVE SplitAtNewline(_)
\* the pieces of a text between its "\n" characters
SplitAtNewline(text) ==
    LET nl == {j \in 1..Len(text) : text[j] = "\n"}
    IN  IF nl = {} THEN <<text>>
        ELSE LET j == CHOOSE k \in nl : \A l \in nl : k <= l
             IN  <<SubSeq(text, 1, j - 1)>> \o SplitAtNewline(SubSeq(text, j + 1, Len(text)))

\* C8: the numbered text is len(lines) entries joined by newline, the i-th
\* being "<<i>> " followed by lines[i]; the empty text gives the empty
\* numbered text and the empty line array.
C8_IndexAgreement ==
    pc = "numbered" =>
        /\ content = <<>> => (numbered_doc = <<>> /\ original_lines = <<>>)
        /\ original_lines = <<>> => numbered_doc = <<>>
        /\ original_lines # <<>> =>
              LET entries == SplitAtNewline(numbered_doc)
              IN  /\ Len(entries) = Len(original_lines)
                  /\ \A i \in 1..Len(entries) :
                        entries[i] = <<"<", "<">> \o IntToStr(i) \o <<">", ">", " ">>
                                        \o original_lines[i]

\* C8 witness: a text of ten lines, blank ones among them, was numbered
C8_Witness ==
    /\ pc = "numbered"
    /\ Len(original_lines) = 10
    /\ \E i \in 1..Len(original_lines) : original_lines[i] = <<>>
    /\ \E i \in 1..Len(original_lines) : original_lines[i] # <<>>

\* C9: the cursor strictly increases at every pass of the scan loop.
C9_CursorIncreases ==
    [][(pc = "scan" /\ pc' = "scan") => current_line' > current_line]_vars

\* C10: at most one labeled unit is emitted at a start line, it ends where
\* the block of smallest end among those of that start ends (clamped to N),
\* and no labeled unit starts strictly inside an earlier labeled span.
C10_FirstMatch ==
    /\ \A i, j \in LabeledUnits(html_output) :
          html_output[i].start = html_output[j].start => i = j
    /\ \A i \in LabeledUnits(html_output) :
          \A k \in 1..Len(blocks) :
              blocks[k].start = html_output[i].start =>
                  html_output[i].end <= Min(blocks[k].end, total_lines)
    /\ \A i, j \in LabeledUnits(html_output) :
          i < j => ~(html_output[i].start < html_output[j].start
                        /\ html_output[j].start <= html_output[i].end)

====
